---- MODULE Spec2Model ----
(***************************************************************************)
(* wiilwaal: an express/sqlite3 social-network server.  The repository     *)
(* holds three revisions of the server: src/server.js lines 1-298 (the     *)
(* first one), src/server.js lines 300-1085 (the complete one, with likes, *)
(* comments, chats and the admin routes) and src/unnamed/part_000 (the one *)
(* with input validation and LIMIT 50).  A behaviour of this model is a    *)
(* run of one of them: rev is chosen at start-up and never changes.        *)
(*                                                                         *)
(* Strings are sequences of one-character strings, so that toLowerCase and *)
(* indexOf are computed.  A request is handled by one action, except the   *)
(* check-then-act handlers (like toggle, chat get-or-create, password      *)
(* change), which are two actions with the request waiting in `pending'    *)
(* between its two database calls.  resp is the latest response sent, with *)
(* the request it answers.                                                 *)
(***************************************************************************)
EXTENDS Integers, Sequences, FiniteSets, TLC

VARIABLES rev, users, nextUserId, sessions, posts, nextPostId, likes,
          nextLikeId, comments, nextCommentId, chats, nextChatId, messages,
          nextMessageId, now, pending, lastLiked, resp

vars == <<rev, users, nextUserId, sessions, posts, nextPostId, likes,
          nextLikeId, comments, nextCommentId, chats, nextChatId, messages,
          nextMessageId, now, pending, lastLiked, resp>>

dbVars == <<users, nextUserId, posts, nextPostId, likes, nextLikeId,
            comments, nextCommentId, chats, nextChatId, messages,
            nextMessageId>>

-----------------------------------------------------------------------------
(* Bounds of the model *)

\* user rows ever inserted (the AUTOINCREMENT counter stops here)
MaxUsers == 3
\* client sessions (cookies)
NumSessions == 1
\* post rows ever inserted
MaxPosts == 2
\* like rows ever inserted
MaxLikes == 3
\* chat rows ever inserted
MaxChats == 2
\* message rows ever inserted
MaxMessages == 2
\* comment rows ever inserted
MaxComments == 1
\* the latest value of CURRENT_TIMESTAMP (seconds)
MaxTime == 1

-----------------------------------------------------------------------------
(* Strings *)

\* the value of a field the request does not carry (JS undefined); it is no
\* string: its one element is not a character
Undefined == <<"undefined">>

UpperChars == <<"A", "B", "C", "D", "E", "F", "G", "H", "I", "J", "K", "L",
                "M", "N", "O", "P", "Q", "R", "S", "T", "U", "V", "W", "X",
                "Y", "Z">>
LowerChars == <<"a", "b", "c", "d", "e", "f", "g", "h", "i", "j", "k", "l",
                "m", "n", "o", "p", "q", "r", "s", "t", "u", "v", "w", "x",
                "y", "z">>

ToLowerChar(c) ==
    IF \E i \in 1..Len(UpperChars) : UpperChars[i] = c
    THEN LowerChars[CHOOSE i \in 1..Len(UpperChars) : UpperChars[i] = c]
    ELSE c

\* a mutant: leaves the string as it is
ToLowerCaseIdentity(str) == str

\* String.prototype.toLowerCase
ToLowerCase(str) == [i \in 1..Len(str) |-> ToLowerChar(str[i])]

\* String.prototype.indexOf, zero-based, -1 when absent
IndexOf(str, sub) ==
    LET hits == {i \in 1..(Len(str) - Len(sub) + 1) :
                    SubSeq(str, i, i + Len(sub) - 1) = sub}
    IN  IF hits = {} THEN -1
        ELSE (CHOOSE i \in hits : \A j \in hits : i <= j) - 1

\* JS truthiness of a request field: undefined and '' are falsy
Falsy(v) == v = Undefined \/ v = <<>>

-----------------------------------------------------------------------------
(* bcryptjs *)

\* bcrypt.hash(password, 10): the stored value is not the plaintext
BcryptHash(password) == [bcrypt |-> password]

\* a mutant: every password matches
BcryptCompareAlways(password, hash) == TRUE

\* bcrypt.compare(password, hash)
BcryptCompare(password, hash) == hash = BcryptHash(password)

-----------------------------------------------------------------------------
(* Revisions and their routes *)

First == "server.js:1"
Full == "server.js:300"
Part == "part_000"
Revisions == {First, Full, Part}

Routes(r) ==
    CASE r = First -> {"login", "register", "logout", "posts", "create-post"}
      [] r = Part  -> {"login", "register", "logout", "posts", "create-post",
                       "user-info", "like"}
      [] r = Full  -> {"login", "register", "logout", "posts", "create-post",
                       "user-info", "like", "comment", "comments", "chats",
                       "send-message", "messages", "update-profile",
                       "update-password", "users", "users-search",
                       "reset-password", "admin-stats", "admin-users",
                       "admin-block", "admin-delete"}

-----------------------------------------------------------------------------
(* Sessions *)

Sessions == 1..NumSessions

\* a session with no field set: a new one, or the one after destroy()
EmptySession == [k \in {} |-> TRUE]

\* a mutant: the session counts only while its user exists and is not blocked
HasUserIdOfActiveUser(sess) ==
    /\ "userId" \in DOMAIN sess
    /\ \E u \in users : u.id = sess.userId /\ u.is_blocked = 0

\* !req.session.userId is false
HasUserId(sess) == "userId" \in DOMAIN sess

\* req.session.isAdmin is truthy
IsAdminSession(sess) == "isAdmin" \in DOMAIN sess /\ sess.isAdmin

-----------------------------------------------------------------------------
(* Responses *)

Response(op, s, status, body, ran, req, out) ==
    [op |-> op, sess |-> s, status |-> status, body |-> body, ran |-> ran,
     req |-> req, out |-> out]

NoResponse == Response("none", 0, 0, "", FALSE, <<>>, <<>>)

\* the error-handling middleware: an exception thrown in a handler or guard
ServerError(op, s, req) ==
    Response(op, s, 500, "Server error", TRUE, req, <<>>)

-----------------------------------------------------------------------------
(* The database at start-up *)

AdminName == <<"a", "d", "m", "i", "n">>
AdminPassword == <<"a", "d", "m", "i", "n", "1", "2", "3">>

AdminRow ==
    [id |-> 1, username |-> AdminName, password |-> BcryptHash(AdminPassword),
     name |-> <<"A">>, is_admin |-> 1, is_blocked |-> 0]

Init ==
    /\ rev \in Revisions
    /\ users = {AdminRow}
    /\ nextUserId = 2
    /\ sessions = [s \in Sessions |-> EmptySession]
    /\ posts = {}
    /\ nextPostId = 1
    /\ likes = {}
    /\ nextLikeId = 1
    /\ comments = {}
    /\ nextCommentId = 1
    /\ chats = {}
    /\ nextChatId = 1
    /\ messages = {}
    /\ nextMessageId = 1
    /\ now = 0
    /\ pending = {}
    /\ lastLiked = [pair \in (1..MaxPosts) \X (1..MaxUsers) |-> "none"]
    /\ resp = NoResponse

-----------------------------------------------------------------------------
(* POST /register *)

\* a mutant: the username is stored as it was typed
RegisterRowAsTyped(id, username, password, name) ==
    [id |-> id, username |-> username, password |-> BcryptHash(password),
     name |-> name, is_admin |-> 0, is_blocked |-> 0]

\* the row the INSERT of /register adds
RegisterRow(id, username, password, name) ==
    [id |-> id, username |-> ToLowerCase(username),
     password |-> BcryptHash(password), name |-> name,
     is_admin |-> 0, is_blocked |-> 0]

\* users.username is UNIQUE
UsernameTaken(username) == \E u \in users : u.username = username

Register(s, username, password, name) ==
    LET req == <<username, password, name>>
        row == RegisterRow(nextUserId, username, password, name)
    IN
    /\ "register" \in Routes(rev)
    /\ UNCHANGED <<rev, sessions, posts, nextPostId, likes, nextLikeId,
                   comments, nextCommentId, chats, nextChatId, messages,
                   nextMessageId, now, pending, lastLiked>>
    /\ IF rev # Full /\ (Falsy(username) \/ Falsy(password) \/ Falsy(name))
       THEN \* the field check of the first revision and of part_000
            /\ resp' = Response("register", s, IF rev = Part THEN 400 ELSE 200,
                                "Fadlan buuxi dhammaan fields-ka", TRUE, req,
                                <<>>)
            /\ UNCHANGED <<users, nextUserId>>
       ELSE IF password = Undefined \/ username = Undefined
       THEN \* bcrypt.hash(undefined) and undefined.toLowerCase() throw
            \* inside the try block
            /\ resp' = ServerError("register", s, req)
            /\ UNCHANGED <<users, nextUserId>>
       ELSE IF UsernameTaken(row.username)
       THEN \* SQLITE_CONSTRAINT
            /\ resp' = Response("register", s, 200, "Username hore u jiray",
                                TRUE, req, <<>>)
            /\ UNCHANGED <<users, nextUserId>>
       ELSE /\ nextUserId <= MaxUsers
            /\ users' = users \cup {row}
            /\ nextUserId' = nextUserId + 1
            /\ resp' = IF rev = First
                       THEN Response("register", s, 200,
                                     "Diiwaangelintadu waxay guulaysatay",
                                     TRUE, req, nextUserId)
                       ELSE Response("register", s, 302, "/login.html", TRUE,
                                     req, nextUserId)

-----------------------------------------------------------------------------
(* POST /login *)

\* a mutant: the query without its is_blocked condition
LoginLookupAnyUser(username) ==
    {u \in users : u.username = ToLowerCase(username)}

\* SELECT * FROM users WHERE username = ? AND is_blocked = 0
LoginLookup(username) ==
    {u \in users : u.username = ToLowerCase(username) /\ u.is_blocked = 0}

\* the three session writes of a successful login
LoginSession(user) ==
    [userId |-> user.id, username |-> user.username,
     isAdmin |-> (user.is_admin = 1)]

Login(s, username, password) ==
    LET req == <<username, password>> IN
    /\ "login" \in Routes(rev)
    /\ UNCHANGED <<rev, now, pending, lastLiked>>
    /\ UNCHANGED dbVars
    /\ IF rev # Full /\ (Falsy(username) \/ Falsy(password))
       THEN /\ resp' = Response("login", s, IF rev = Part THEN 400 ELSE 200,
                                "Fadlan geli username iyo password", TRUE, req,
                                <<>>)
            /\ UNCHANGED sessions
       ELSE IF username = Undefined
       THEN \* undefined.toLowerCase() throws in the handler
            /\ resp' = ServerError("login", s, req)
            /\ UNCHANGED sessions
       ELSE IF LoginLookup(username) = {}
       THEN /\ resp' = Response("login", s, 200,
                                "Username ama password khalad", TRUE, req,
                                <<>>)
            /\ UNCHANGED sessions
       ELSE LET user == CHOOSE u \in LoginLookup(username) : TRUE IN
            IF password = Undefined
            THEN \* bcrypt.compare(undefined, hash) rejects: the catch block
                 /\ resp' = ServerError("login", s, req)
                 /\ UNCHANGED sessions
            ELSE IF ~BcryptCompare(password, user.password)
            THEN /\ resp' = Response("login", s, 200,
                                     "Username ama password khalad", TRUE,
                                     req, <<>>)
                 /\ UNCHANGED sessions
            ELSE /\ sessions' = [sessions EXCEPT ![s] = LoginSession(user)]
                 /\ resp' = Response("login", s, 302, "/", TRUE, req, user.id)

-----------------------------------------------------------------------------
(* GET /logout *)

\* a mutant: the session survives
DestroyKeeps(sess) == sess

\* req.session.destroy()
Destroy(sess) == EmptySession

Logout(s) ==
    /\ "logout" \in Routes(rev)
    /\ sessions' = [sessions EXCEPT ![s] = Destroy(sessions[s])]
    /\ resp' = Response("logout", s, 302, "/login.html", TRUE, <<>>,
                        HasUserId(sessions[s]))
    /\ UNCHANGED <<rev, now, pending, lastLiked>>
    /\ UNCHANGED dbVars

-----------------------------------------------------------------------------
(* The guards *)

TextHtml == <<"t", "e", "x", "t", "/", "h", "t", "m", "l">>
ApplicationJson == <<"a", "p", "p", "l", "i", "c", "a", "t", "i", "o", "n",
                     "/", "j", "s", "o", "n">>
Json == <<"j", "s", "o", "n">>

\* the headers a request may carry: xhr is req.xhr (X-Requested-With is
\* XMLHttpRequest), accept is req.headers.accept
Headers ==
    {[xhr |-> FALSE, accept |-> TextHtml],
     [xhr |-> FALSE, accept |-> ApplicationJson],
     [xhr |-> TRUE, accept |-> Undefined],
     [xhr |-> FALSE, accept |-> Undefined]}

GuardNext == [next |-> TRUE, status |-> 0, body |-> ""]
GuardSend(status, body) == [next |-> FALSE, status |-> status, body |-> body]

\* a mutant: the guard lets every request through
RequireLoginOpen(r, sess, h) == GuardNext

\* requireLogin: next(), or the response it sends.  In the two later
\* revisions req.headers.accept.indexOf throws when the request is no XHR
\* and carries no Accept header; the error handler answers 500.
RequireLogin(r, sess, h) ==
    IF HasUserId(sess) THEN GuardNext
    ELSE IF r = First THEN GuardSend(302, "/login.html")
    ELSE IF h.xhr THEN GuardSend(401, "Authentication required")
    ELSE IF h.accept = Undefined THEN GuardSend(500, "Server error")
    ELSE IF IndexOf(h.accept, Json) > -1
         THEN GuardSend(401, "Authentication required")
    ELSE GuardSend(302, "/login.html")

\* a mutant: any logged-in session passes
RequireAdminAnyUser(sess) ==
    IF ~HasUserId(sess) THEN GuardSend(403, "Admin access required")
    ELSE GuardNext

\* requireAdmin
RequireAdmin(sess) ==
    IF ~HasUserId(sess) \/ ~IsAdminSession(sess)
    THEN GuardSend(403, "Admin access required")
    ELSE GuardNext

\* the response of a guard that did not call next(): the handler does not run
Rejected(op, s, h, g) == Response(op, s, g.status, g.body, FALSE, h, <<>>)

LoginGuarded == {"posts", "create-post", "user-info", "like", "comment",
                 "chats", "send-message", "messages", "update-password",
                 "users", "users-search", "comments", "update-profile"}
AdminGuarded == {"admin-stats", "admin-users", "admin-block", "admin-delete"}

-----------------------------------------------------------------------------
(* GET /api/user-info *)

UserInfo(s, h) ==
    LET g == RequireLogin(rev, sessions[s], h) IN
    /\ "user-info" \in Routes(rev)
    /\ UNCHANGED <<rev, sessions, now, pending, lastLiked>>
    /\ UNCHANGED dbVars
    /\ IF ~g.next THEN resp' = Rejected("user-info", s, h, g)
       ELSE LET found == {u \in users : u.id = sessions[s].userId} IN
            IF found = {}
            THEN resp' = Response("user-info", s, 404, "User not found", TRUE,
                                  <<>>, <<>>)
            ELSE resp' = Response("user-info", s, 200, "json", TRUE, <<>>,
                                  (CHOOSE u \in found : TRUE).id)

-----------------------------------------------------------------------------
(* The admin routes *)

\* GET /api/admin/stats: the four counts (no route inserts a report or a
\* comment row here)
AdminStats(s) ==
    LET g == RequireAdmin(sessions[s]) IN
    /\ "admin-stats" \in Routes(rev)
    /\ UNCHANGED <<rev, sessions, now, pending, lastLiked>>
    /\ UNCHANGED dbVars
    /\ IF ~g.next THEN resp' = Rejected("admin-stats", s, <<>>, g)
       ELSE resp' = Response("admin-stats", s, 200, "json", TRUE, <<>>,
                             [totalUsers |-> Cardinality(users),
                              totalPosts |-> Cardinality(posts),
                              totalComments |-> 0, totalReports |-> 0])

\* GET /api/admin/users
AdminUsers(s) ==
    LET g == RequireAdmin(sessions[s]) IN
    /\ "admin-users" \in Routes(rev)
    /\ UNCHANGED <<rev, sessions, now, pending, lastLiked>>
    /\ UNCHANGED dbVars
    /\ IF ~g.next THEN resp' = Rejected("admin-users", s, <<>>, g)
       ELSE resp' = Response("admin-users", s, 200, "json", TRUE, <<>>,
                             {u.id : u \in users})

\* UPDATE users SET is_blocked = ? WHERE id = ?
BlockUpdate(id, blocked) ==
    {IF u.id = id THEN [u EXCEPT !.is_blocked = IF blocked THEN 1 ELSE 0]
     ELSE u : u \in users}

\* POST /api/admin/users/:id/block
AdminBlock(s, id, blocked) ==
    LET g == RequireAdmin(sessions[s]) IN
    /\ "admin-block" \in Routes(rev)
    /\ UNCHANGED <<rev, sessions, now, pending, lastLiked>>
    /\ UNCHANGED <<nextUserId, posts, nextPostId, likes, nextLikeId,
                   comments, nextCommentId, chats, nextChatId, messages,
                   nextMessageId>>
    /\ IF ~g.next
       THEN /\ resp' = Rejected("admin-block", s, <<id, blocked>>, g)
            /\ UNCHANGED users
       ELSE /\ users' = BlockUpdate(id, blocked)
            /\ resp' = Response("admin-block", s, 200, "json", TRUE,
                                <<id, blocked>>, <<>>)

\* a mutant: the DELETE without its WHERE clause
DeleteAllUsers(id) == {}

\* DELETE FROM users WHERE id = ?
DeleteUser(id) == {u \in users : u.id # id}

\* DELETE /api/admin/users/:id
AdminDelete(s, id) ==
    LET g == RequireAdmin(sessions[s]) IN
    /\ "admin-delete" \in Routes(rev)
    /\ UNCHANGED <<rev, sessions, now, pending, lastLiked>>
    /\ UNCHANGED <<nextUserId, posts, nextPostId, likes, nextLikeId,
                   comments, nextCommentId, chats, nextChatId, messages,
                   nextMessageId>>
    /\ IF ~g.next
       THEN /\ resp' = Rejected("admin-delete", s, <<id>>, g)
            /\ UNCHANGED users
       ELSE /\ users' = DeleteUser(id)
            /\ resp' = Response("admin-delete", s, 200, "json", TRUE, <<id>>,
                                <<>>)

-----------------------------------------------------------------------------
(* The clock *)

\* CURRENT_TIMESTAMP, the default of every created_at column, counts whole
\* seconds: it moves between some requests and not between others
Tick ==
    /\ now < MaxTime
    /\ now' = now + 1
    /\ UNCHANGED <<rev, sessions, pending, lastLiked, resp>>
    /\ UNCHANGED dbVars

-----------------------------------------------------------------------------
(* POST /create-post *)

Public == <<"p", "u", "b", "l", "i", "c">>
Private == <<"p", "r", "i", "v", "a", "t", "e">>

\* the value bound to the privacy column: the two revisions that destructure
\* with `privacy = 'public'' default it, the complete revision binds undefined
\* (NULL), which overrides the column default
PrivacyParam(r, privacy) ==
    IF r # Full /\ privacy = Undefined THEN Public ELSE privacy

\* upload.fields runs before requireLogin; multipart is whether the request
\* is multipart/form-data (multer sets req.files only then) and files the
\* names of the file fields it carries
CreatePost(s, h, content, privacy, multipart, files) ==
    LET g == RequireLogin(rev, sessions[s], h)
        req == <<content, privacy, multipart, files>>
    IN
    /\ "create-post" \in Routes(rev)
    /\ multipart \/ files = {}
    /\ UNCHANGED <<rev, sessions, now, pending, lastLiked>>
    /\ UNCHANGED <<users, nextUserId, likes, nextLikeId, comments,
                   nextCommentId, chats, nextChatId, messages, nextMessageId>>
    /\ IF ~g.next
       THEN /\ resp' = Rejected("create-post", s, h, g)
            /\ UNCHANGED <<posts, nextPostId>>
       ELSE IF rev = Part /\ ~multipart
       THEN \* req.files is undefined and req.files.image throws
            /\ resp' = ServerError("create-post", s, req)
            /\ UNCHANGED <<posts, nextPostId>>
       ELSE IF rev = Part /\ Falsy(content) /\ files = {}
       THEN /\ resp' = Response("create-post", s, 400,
                                "Fadlan geli content ama dooro file", TRUE,
                                req, <<>>)
            /\ UNCHANGED <<posts, nextPostId>>
       ELSE /\ Cardinality({p \in posts : p.created_at >= 0}) < MaxPosts
            /\ posts' = posts \cup
                  {[id |-> nextPostId, user_id |-> sessions[s].userId,
                    content |-> content, media |-> files,
                    privacy |-> PrivacyParam(rev, privacy),
                    created_at |-> now]}
            /\ nextPostId' = nextPostId + 1
            /\ resp' = Response("create-post", s, 302, "/", TRUE, req,
                                nextPostId)

-----------------------------------------------------------------------------
(* GET /api/posts *)

PostsLimit == 50

\* a mutant: every post of an existing author is selected
VisibleAll(p, userId) == \E u \in users : u.id = p.user_id

\* FROM posts p JOIN users u ON p.user_id = u.id
\* WHERE p.privacy = 'public' OR p.user_id = ?
Visible(p, userId) ==
    /\ \E u \in users : u.id = p.user_id
    /\ p.privacy = Public \/ p.user_id = userId

\* the rows than which no row of the set is newer
Newest(rows) == {p \in rows : \A q \in rows : p.created_at >= q.created_at}

RECURSIVE NewestFirst(_)
\* ORDER BY created_at DESC: every order of the rows in which created_at
\* does not increase; SQL leaves the order of rows with equal keys open
NewestFirst(rows) ==
    IF rows = {} THEN {<<>>}
    ELSE UNION {{<<p>> \o rest : rest \in NewestFirst(rows \ {p})} :
                   p \in Newest(rows)}

\* LIMIT 50, in part_000 only
Limit(r, order) ==
    IF r = Part /\ Len(order) > PostsLimit THEN SubSeq(order, 1, PostsLimit)
    ELSE order

GetPosts(s, h) ==
    LET g == RequireLogin(rev, sessions[s], h) IN
    /\ "posts" \in Routes(rev)
    /\ UNCHANGED <<rev, sessions, now, pending, lastLiked>>
    /\ UNCHANGED dbVars
    /\ IF ~g.next THEN resp' = Rejected("posts", s, h, g)
       ELSE \E order \in NewestFirst({p \in posts :
                                        Visible(p, sessions[s].userId)}) :
               resp' = Response("posts", s, 200, "json", TRUE,
                                sessions[s].userId, Limit(rev, order))

-----------------------------------------------------------------------------
(* POST /api/posts/:id/like *)

\* requests between their two database calls
MaxPending == 2

FreeSlots == {n \in 1..MaxPending : \A q \in pending : q.slot # n}

\* a mutant: the two parameters bound the other way round
LikeRowsSwapped(postId, userId) ==
    {l \in likes : l.post_id = userId /\ l.user_id = postId}

\* SELECT * FROM likes WHERE post_id = ? AND user_id = ?
LikeRows(postId, userId) ==
    {l \in likes : l.post_id = postId /\ l.user_id = userId}

\* the guard and the SELECT; the callback's write is LikeWrite
LikeSelect(s, h, postId) ==
    LET g == RequireLogin(rev, sessions[s], h) IN
    /\ "like" \in Routes(rev)
    /\ UNCHANGED <<rev, sessions, now, lastLiked>>
    /\ UNCHANGED dbVars
    /\ IF ~g.next
       THEN /\ resp' = Rejected("like", s, h, g)
            /\ UNCHANGED pending
       ELSE /\ FreeSlots # {}
            /\ pending' = pending \cup
                  {[kind |-> "like",
                    slot |-> CHOOSE n \in FreeSlots :
                                \A m \in FreeSlots : n <= m,
                    sess |-> s, userId |-> sessions[s].userId,
                    arg |-> postId,
                    found |-> LikeRows(postId, sessions[s].userId) # {}]}
            /\ UNCHANGED resp

\* a mutant: the unlike branch deletes one row of the pair, the oldest
UnlikeOne(postId, userId) ==
    likes \ {l \in LikeRows(postId, userId) :
                \A k \in LikeRows(postId, userId) : l.id <= k.id}

\* a mutant: the unlike branch deletes nothing
UnlikeKeeps(postId, userId) == likes

\* DELETE FROM likes WHERE post_id = ? AND user_id = ?
Unlike(postId, userId) == likes \ LikeRows(postId, userId)

\* a mutant: the table as it would be with UNIQUE(post_id, user_id), the
\* second row of a pair refused
LikeInsertUnique(postId, userId) ==
    IF LikeRows(postId, userId) # {} THEN likes
    ELSE likes \cup {[id |-> nextLikeId, post_id |-> postId,
                      user_id |-> userId]}

\* INSERT INTO likes (post_id, user_id) VALUES (?, ?)
LikeInsert(postId, userId) ==
    likes \cup {[id |-> nextLikeId, post_id |-> postId, user_id |-> userId]}

\* the callback of the SELECT: the DELETE or the INSERT, and the response
LikeWrite(q) ==
    /\ q \in pending
    /\ q.kind = "like"
    /\ pending' = pending \ {q}
    /\ UNCHANGED <<rev, sessions, now>>
    /\ UNCHANGED <<users, nextUserId, posts, nextPostId, comments,
                   nextCommentId, chats, nextChatId, messages, nextMessageId>>
    /\ IF q.found
       THEN /\ likes' = Unlike(q.arg, q.userId)
            /\ UNCHANGED nextLikeId
            /\ lastLiked' = [lastLiked EXCEPT ![<<q.arg, q.userId>>] = "false"]
            /\ resp' = Response("like", q.sess, 200, "json", TRUE,
                                <<q.arg, q.userId>>, FALSE)
       ELSE /\ nextLikeId <= MaxLikes
            /\ likes' = LikeInsert(q.arg, q.userId)
            /\ nextLikeId' = nextLikeId + 1
            /\ lastLiked' = [lastLiked EXCEPT ![<<q.arg, q.userId>>] = "true"]
            /\ resp' = Response("like", q.sess, 200, "json", TRUE,
                                <<q.arg, q.userId>>, TRUE)

-----------------------------------------------------------------------------
(* POST /update-password *)

\* the guard, SELECT password FROM users WHERE id = ? and its callback up to
\* the UPDATE: the request ends here when the row is gone (user.password
\* throws), when bcrypt.compare or bcrypt.hash rejects a value that is no
\* string, and when the current password is wrong; else it waits in pending
\* with the hash it read (found) for its UPDATE
UpdatePasswordSelect(s, h, currentPassword, newPassword) ==
    LET g == RequireLogin(rev, sessions[s], h)
        userId == sessions[s].userId
        req == <<currentPassword, newPassword, userId>>
        found == {u \in users : u.id = userId}
    IN
    /\ "update-password" \in Routes(rev)
    /\ UNCHANGED <<rev, sessions, now, lastLiked>>
    /\ UNCHANGED dbVars
    /\ IF ~g.next
       THEN /\ resp' = Rejected("update-password", s, h, g)
            /\ UNCHANGED pending
       ELSE IF found = {} \/ currentPassword = Undefined
       THEN /\ resp' = ServerError("update-password", s, req)
            /\ UNCHANGED pending
       ELSE LET user == CHOOSE u \in found : TRUE IN
            IF ~BcryptCompare(currentPassword, user.password)
            THEN /\ resp' = Response("update-password", s, 200,
                                     "Password-ka hadda waa khalad", TRUE,
                                     req, user.password)
                 /\ UNCHANGED pending
            ELSE IF newPassword = Undefined
            THEN /\ resp' = ServerError("update-password", s, req)
                 /\ UNCHANGED pending
            ELSE /\ FreeSlots # {}
                 /\ pending' = pending \cup
                       {[kind |-> "password",
                         slot |-> CHOOSE n \in FreeSlots :
                                     \A k \in FreeSlots : n <= k,
                         sess |-> s, userId |-> userId, arg |-> req,
                         found |-> user.password]}
                 /\ UNCHANGED resp

\* UPDATE users SET password = ? WHERE id = ?
PasswordUpdate(id, password) ==
    {IF u.id = id THEN [u EXCEPT !.password = BcryptHash(password)] ELSE u :
        u \in users}

\* the UPDATE and the redirect
UpdatePasswordWrite(q) ==
    /\ q \in pending
    /\ q.kind = "password"
    /\ pending' = pending \ {q}
    /\ users' = PasswordUpdate(q.userId, q.arg[2])
    /\ resp' = Response("update-password", q.sess, 302,
                        "/settings.html?message=password_updated", TRUE,
                        q.arg, <<>>)
    /\ UNCHANGED <<rev, sessions, now, lastLiked>>
    /\ UNCHANGED <<nextUserId, posts, nextPostId, likes, nextLikeId,
                   comments, nextCommentId, chats, nextChatId, messages,
                   nextMessageId>>

-----------------------------------------------------------------------------
(* POST /api/posts/:id/comment *)

\* INSERT INTO comments (post_id, user_id, content) VALUES (?, ?, ?): the
\* post is not looked up
AddComment(s, h, postId, content) ==
    LET g == RequireLogin(rev, sessions[s], h) IN
    /\ "comment" \in Routes(rev)
    /\ UNCHANGED <<rev, sessions, now, pending, lastLiked>>
    /\ UNCHANGED <<users, nextUserId, posts, nextPostId, likes, nextLikeId,
                   chats, nextChatId, messages, nextMessageId>>
    /\ IF ~g.next
       THEN /\ resp' = Rejected("comment", s, h, g)
            /\ UNCHANGED <<comments, nextCommentId>>
       ELSE /\ nextCommentId <= MaxComments
            /\ comments' = comments \cup
                  {[id |-> nextCommentId, post_id |-> postId,
                    user_id |-> sessions[s].userId, content |-> content,
                    created_at |-> now]}
            /\ nextCommentId' = nextCommentId + 1
            /\ resp' = Response("comment", s, 200, "json", TRUE,
                                <<postId, sessions[s].userId>>,
                                nextCommentId)

-----------------------------------------------------------------------------
(* POST /api/chats *)

\* a mutant: the lookup in the order of the request only
ChatRowsOrdered(userId, otherUserId) ==
    {c \in chats : c.user1_id = userId /\ c.user2_id = otherUserId}

\* SELECT * FROM chats WHERE (user1_id = ? AND user2_id = ?)
\*                        OR (user1_id = ? AND user2_id = ?)
ChatRows(userId, otherUserId) ==
    {c \in chats : \/ c.user1_id = userId /\ c.user2_id = otherUserId
                   \/ c.user1_id = otherUserId /\ c.user2_id = userId}

\* the guard and the lookup: an existing chat is answered at once (db.get
\* gives one of the matching rows), the INSERT of a new one is ChatInsert
ChatLookup(s, h, otherUserId) ==
    LET g == RequireLogin(rev, sessions[s], h) IN
    /\ "chats" \in Routes(rev)
    /\ UNCHANGED <<rev, sessions, now, lastLiked>>
    /\ UNCHANGED dbVars
    /\ IF ~g.next
       THEN /\ resp' = Rejected("chats", s, h, g)
            /\ UNCHANGED pending
       ELSE IF ChatRows(sessions[s].userId, otherUserId) # {}
       THEN /\ \E c \in ChatRows(sessions[s].userId, otherUserId) :
                  resp' = Response("chats", s, 200, "json", TRUE,
                                   <<sessions[s].userId, otherUserId>>, c.id)
            /\ UNCHANGED pending
       ELSE /\ FreeSlots # {}
            /\ pending' = pending \cup
                  {[kind |-> "chat",
                    slot |-> CHOOSE n \in FreeSlots :
                                \A m \in FreeSlots : n <= m,
                    sess |-> s, userId |-> sessions[s].userId,
                    arg |-> otherUserId, found |-> FALSE]}
            /\ UNCHANGED resp

\* a mutant: the table as it would be with a unique pair of users, the
\* second row of a pair refused
NewChatUnique(userId, otherUserId) ==
    IF ChatRows(userId, otherUserId) # {} THEN chats
    ELSE chats \cup {[id |-> nextChatId, user1_id |-> userId,
                      user2_id |-> otherUserId]}

\* INSERT INTO chats (user1_id, user2_id) VALUES (?, ?)
NewChat(userId, otherUserId) ==
    chats \cup {[id |-> nextChatId, user1_id |-> userId,
                 user2_id |-> otherUserId]}

\* the callback of a lookup that found no chat: the INSERT and the response
ChatInsert(q) ==
    /\ q \in pending
    /\ q.kind = "chat"
    /\ nextChatId <= MaxChats
    /\ pending' = pending \ {q}
    /\ chats' = NewChat(q.userId, q.arg)
    /\ nextChatId' = nextChatId + 1
    /\ resp' = Response("chats", q.sess, 200, "json", TRUE,
                        <<q.userId, q.arg>>, nextChatId)
    /\ UNCHANGED <<rev, sessions, now, lastLiked>>
    /\ UNCHANGED <<users, nextUserId, posts, nextPostId, likes, nextLikeId,
                   comments, nextCommentId, messages, nextMessageId>>

-----------------------------------------------------------------------------
(* POST /api/chats/:id/messages *)

\* a mutant: the chat is looked up by its id alone
ChatAccessById(chatId, userId) == {c \in chats : c.id = chatId}

\* SELECT * FROM chats WHERE id = ? AND (user1_id = ? OR user2_id = ?)
ChatAccess(chatId, userId) ==
    {c \in chats : /\ c.id = chatId
                   /\ c.user1_id = userId \/ c.user2_id = userId}

\* the access check and the INSERT: no request changes or deletes a chat
\* row, so nothing another request does between the two calls changes the
\* outcome
SendMessage(s, h, chatId, content, file) ==
    LET g == RequireLogin(rev, sessions[s], h)
        req == <<chatId, sessions[s].userId>>
    IN
    /\ "send-message" \in Routes(rev)
    /\ UNCHANGED <<rev, sessions, now, pending, lastLiked>>
    /\ UNCHANGED <<users, nextUserId, posts, nextPostId, likes, nextLikeId,
                   comments, nextCommentId, chats, nextChatId>>
    /\ IF ~g.next
       THEN /\ resp' = Rejected("send-message", s, h, g)
            /\ UNCHANGED <<messages, nextMessageId>>
       ELSE IF ChatAccess(chatId, sessions[s].userId) = {}
       THEN /\ resp' = Response("send-message", s, 403, "Access denied", TRUE,
                                req, <<>>)
            /\ UNCHANGED <<messages, nextMessageId>>
       ELSE /\ nextMessageId <= MaxMessages
            /\ messages' = messages \cup
                  {[id |-> nextMessageId, chat_id |-> chatId,
                    sender_id |-> sessions[s].userId, content |-> content,
                    message_type |-> IF file THEN "file" ELSE "text",
                    file_url |-> file, created_at |-> now]}
            /\ nextMessageId' = nextMessageId + 1
            /\ resp' = Response("send-message", s, 200, "json", TRUE, req,
                                nextMessageId)

-----------------------------------------------------------------------------
(* GET /api/chats/:id/messages *)

\* FROM messages m JOIN users u ON m.sender_id = u.id WHERE m.chat_id = ?
MessagesOf(chatId) ==
    {msg \in messages : /\ msg.chat_id = chatId
                        /\ \E u \in users : u.id = msg.sender_id}

\* ORDER BY m.created_at ASC: every order of the rows in which created_at
\* does not decrease
OldestFirst(rows) ==
    {order \in [1..Cardinality(rows) -> rows] :
        /\ \A i, j \in DOMAIN order : i # j => order[i] # order[j]
        /\ \A i, j \in DOMAIN order :
              i < j => order[i].created_at <= order[j].created_at}

\* the access check and the SELECT: chat rows never change, so nothing
\* another request does between the two calls changes the check's outcome,
\* and the result is the table as the SELECT finds it
GetMessages(s, h, chatId) ==
    LET g == RequireLogin(rev, sessions[s], h)
        req == <<chatId, sessions[s].userId>>
    IN
    /\ "messages" \in Routes(rev)
    /\ UNCHANGED <<rev, sessions, now, pending, lastLiked>>
    /\ UNCHANGED dbVars
    /\ IF ~g.next THEN resp' = Rejected("messages", s, h, g)
       ELSE IF ChatAccess(chatId, sessions[s].userId) = {}
       THEN resp' = Response("messages", s, 403, "Access denied", TRUE, req,
                             <<>>)
       ELSE \E order \in OldestFirst(MessagesOf(chatId)) :
               resp' = Response("messages", s, 200, "json", TRUE, req, order)

-----------------------------------------------------------------------------
(* GET /api/admin/stats, one callback at a time *)

\* the keys of the queries object
StatKeys == {"totalUsers", "totalPosts", "totalComments", "totalReports"}

\* SELECT COUNT(*) of the key's table (no route inserts a report row)
StatCount(key) ==
    CASE key = "totalUsers" -> Cardinality(users)
      [] key = "totalPosts" -> Cardinality(posts)
      [] key = "totalComments" -> Cardinality(comments)
      [] OTHER -> 0

\* a mutant: the result is sent as soon as one query has called back
StatsCompleteAny(completed) == completed >= 1

\* completed === Object.keys(queries).length
StatsComplete(completed) == completed = Cardinality(StatKeys)

\* the guard and the forEach that issues the four db.get calls: arg is the
\* set of keys whose callback has not run, found the handler's closure
\* (results in the order of the callbacks, completed) with the statuses of
\* the responses it has sent
AdminStatsStart(s) ==
    LET g == RequireAdmin(sessions[s]) IN
    /\ "admin-stats" \in Routes(rev)
    /\ UNCHANGED <<rev, sessions, now, lastLiked>>
    /\ UNCHANGED dbVars
    /\ IF ~g.next
       THEN /\ resp' = Rejected("admin-stats", s, <<>>, g)
            /\ UNCHANGED pending
       ELSE /\ FreeSlots # {}
            /\ pending' = pending \cup
                  {[kind |-> "stats",
                    slot |-> CHOOSE n \in FreeSlots :
                                \A k \in FreeSlots : n <= k,
                    sess |-> s, userId |-> sessions[s].userId,
                    arg |-> StatKeys,
                    found |-> [results |-> <<>>, completed |-> 0,
                               sent |-> <<>>]]}
            /\ UNCHANGED resp

\* the callback of the db.get of one key, with err set or not: an error is
\* answered 500 whatever was sent before, a row is counted and the result
\* sent when completed reaches the number of queries
StatsCallback(q, key, err) ==
    LET f == q.found
        results == IF err THEN f.results
                   ELSE Append(f.results, <<key, StatCount(key)>>)
        completed == IF err THEN f.completed ELSE f.completed + 1
        status == IF err THEN 500
                  ELSE IF StatsComplete(completed) THEN 200 ELSE 0
        sent == IF status = 0 THEN f.sent ELSE Append(f.sent, status)
        closure == [results |-> results, completed |-> completed,
                    sent |-> sent]
    IN
    /\ q \in pending
    /\ q.kind = "stats"
    /\ key \in q.arg
    /\ pending' = IF q.arg = {key} THEN pending \ {q}
                  ELSE (pending \ {q}) \cup
                          {[q EXCEPT !.arg = q.arg \ {key},
                                     !.found = closure]}
    /\ resp' = IF status = 0 THEN resp
               ELSE Response("admin-stats", q.sess, status,
                             IF err THEN "Database error" ELSE "json", TRUE,
                             q.slot, closure)
    /\ UNCHANGED <<rev, sessions, now, lastLiked>>
    /\ UNCHANGED dbVars

-----------------------------------------------------------------------------
(* GET /api/users and GET /api/users/search *)

\* a mutant: every user row is selected
ListedAll(u, userId) == TRUE

\* WHERE is_blocked = 0 AND id != ?
Listed(u, userId) == u.is_blocked = 0 /\ u.id # userId

\* column LIKE '%' + searchTerm + '%': SQLite's LIKE does not tell the case of
\* ASCII letters apart, and a NULL column matches nothing
Like(column, searchTerm) ==
    /\ column # Undefined
    /\ IndexOf(ToLowerCase(column), ToLowerCase(searchTerm)) >= 0

SearchLimit == 10

\* GET /api/users: the ids of the rows, the order left out
GetUsers(s, h) ==
    LET g == RequireLogin(rev, sessions[s], h) IN
    /\ "users" \in Routes(rev)
    /\ UNCHANGED <<rev, sessions, now, pending, lastLiked>>
    /\ UNCHANGED dbVars
    /\ IF ~g.next THEN resp' = Rejected("users", s, h, g)
       ELSE resp' = Response("users", s, 200, "json", TRUE,
                             <<sessions[s].userId>>,
                             {u.id : u \in {v \in users :
                                 Listed(v, sessions[s].userId)}})

\* GET /api/users/search?q=searchTerm: LIMIT 10 keeps any ten of the rows
\* that match
SearchUsers(s, h, searchTerm) ==
    LET g == RequireLogin(rev, sessions[s], h)
        rows == {u \in users :
                    /\ Like(u.username, searchTerm) \/ Like(u.name, searchTerm)
                    /\ Listed(u, sessions[s].userId)}
    IN
    /\ "users-search" \in Routes(rev)
    /\ UNCHANGED <<rev, sessions, now, pending, lastLiked>>
    /\ UNCHANGED dbVars
    /\ IF ~g.next THEN resp' = Rejected("users-search", s, h, g)
       ELSE \E kept \in SUBSET rows :
               /\ Cardinality(kept) =
                     (IF Cardinality(rows) > SearchLimit THEN SearchLimit
                      ELSE Cardinality(rows))
               /\ resp' = Response("users-search", s, 200, "json", TRUE,
                                   <<sessions[s].userId, searchTerm>>,
                                   {u.id : u \in kept})

-----------------------------------------------------------------------------
(* POST /reset-password *)

\* a mutant: the username is folded to lower case as at login
ResetUpdateFolded(username, password) ==
    {IF u.username = ToLowerCase(username)
     THEN [u EXCEPT !.password = BcryptHash(password)] ELSE u : u \in users}

\* UPDATE users SET password = ? WHERE username = ?
ResetUpdate(username, password) ==
    {IF u.username = username
     THEN [u EXCEPT !.password = BcryptHash(password)] ELSE u : u \in users}

\* no guard; bcrypt.hash passes an error to its callback when newPassword is
\* no string, and an undefined username is bound as NULL, which equals no
\* username
ResetPassword(s, username, newPassword) ==
    LET req == <<username, newPassword>> IN
    /\ "reset-password" \in Routes(rev)
    /\ UNCHANGED <<rev, sessions, now, pending, lastLiked>>
    /\ UNCHANGED <<nextUserId, posts, nextPostId, likes, nextLikeId, comments,
                   nextCommentId, chats, nextChatId, messages, nextMessageId>>
    /\ IF newPassword = Undefined
       THEN /\ resp' = ServerError("reset-password", s, req)
            /\ UNCHANGED users
       ELSE /\ users' = ResetUpdate(username, newPassword)
            /\ resp' = Response("reset-password", s, 200,
                                "Password-kaaga si guul leh ayaa loo beddelay!",
                                TRUE, req, <<>>)

-----------------------------------------------------------------------------
(* GET /api/posts/:id/comments *)

\* a mutant: the comments of a post that is public or the requester's own
CommentsOfVisible(postId, userId) ==
    {c \in comments :
        /\ c.post_id = postId
        /\ \E u \in users : u.id = c.user_id
        /\ \E p \in posts : p.id = postId /\ Visible(p, userId)}

\* FROM comments c JOIN users u ON c.user_id = u.id WHERE c.post_id = ?
\* (the session's userId is no parameter of the query)
CommentsOf(postId, userId) ==
    {c \in comments : /\ c.post_id = postId
                      /\ \E u \in users : u.id = c.user_id}

GetComments(s, h, postId) ==
    LET g == RequireLogin(rev, sessions[s], h) IN
    /\ "comments" \in Routes(rev)
    /\ UNCHANGED <<rev, sessions, now, pending, lastLiked>>
    /\ UNCHANGED dbVars
    /\ IF ~g.next THEN resp' = Rejected("comments", s, h, g)
       ELSE \E order \in OldestFirst(CommentsOf(postId,
                                                sessions[s].userId)) :
               resp' = Response("comments", s, 200, "json", TRUE,
                                <<postId, sessions[s].userId>>, order)

-----------------------------------------------------------------------------
(* POST /update-profile *)

\* a mutant: the username is stored as it was typed
ProfileUpdateAsTyped(id, username, name) ==
    {IF u.id = id THEN [u EXCEPT !.username = username, !.name = name]
     ELSE u : u \in users}

\* UPDATE users SET username = ?, name = ?, bio = ? WHERE id = ? with
\* username.toLowerCase() bound to the first parameter (the bio and the
\* profile image are no part of the rows here)
ProfileUpdate(id, username, name) ==
    {IF u.id = id
     THEN [u EXCEPT !.username = ToLowerCase(username), !.name = name]
     ELSE u : u \in users}

\* the UPDATE would give two rows one username: SQLITE_CONSTRAINT
ProfileConflict(id, username, name) ==
    \E u, v \in ProfileUpdate(id, username, name) :
        u.id # v.id /\ u.username = v.username

\* undefined.toLowerCase() throws before the UPDATE; a constraint error is
\* answered with the duplicate-username message; otherwise the callback
\* writes the username as the request gave it to the session and redirects
UpdateProfile(s, h, username, name) ==
    LET g == RequireLogin(rev, sessions[s], h)
        req == <<username, name>>
    IN
    /\ "update-profile" \in Routes(rev)
    /\ UNCHANGED <<rev, now, pending, lastLiked>>
    /\ UNCHANGED <<nextUserId, posts, nextPostId, likes, nextLikeId, comments,
                   nextCommentId, chats, nextChatId, messages, nextMessageId>>
    /\ IF ~g.next
       THEN /\ resp' = Rejected("update-profile", s, h, g)
            /\ UNCHANGED <<users, sessions>>
       ELSE IF username = Undefined
       THEN /\ resp' = ServerError("update-profile", s, req)
            /\ UNCHANGED <<users, sessions>>
       ELSE IF ProfileConflict(sessions[s].userId, username, name)
       THEN /\ resp' = Response("update-profile", s, 200,
                                "Username hore u jiray", TRUE, req, <<>>)
            /\ UNCHANGED <<users, sessions>>
       ELSE /\ users' = ProfileUpdate(sessions[s].userId, username, name)
            /\ sessions' = [sessions EXCEPT ![s].username = username]
            /\ resp' = Response("update-profile", s, 302, "/settings.html",
                                TRUE, req, sessions[s].userId)

-----------------------------------------------------------------------------
(* Inputs *)

Ali == <<"a", "l", "i">>
AliCapital == <<"A", "l", "i">>
AliUpper == <<"A", "L", "I">>
Bo == <<"b", "o">>
Pass1 == <<"p", "1">>
Pass2 == <<"p", "2">>
SomeName == <<"N">>

UserIds == 1..MaxUsers

-----------------------------------------------------------------------------
(* Registration, login and administration *)

AuthRegister ==
    \E s \in Sessions :
    \E username \in {Ali, AliUpper} :
    \E password \in {Pass1, Undefined} :
    \E name \in {SomeName} :
        Register(s, username, password, name)

AuthLogin ==
    \E s \in Sessions :
    \E username \in {Ali, AliUpper, AdminName} :
    \E password \in {Pass1, AdminPassword} :
        Login(s, username, password)

AuthNext ==
    \/ AuthRegister
    \/ AuthLogin
    \/ \E s \in Sessions : Logout(s)
    \/ \E s \in Sessions, h \in Headers : UserInfo(s, h)
    \/ \E s \in Sessions : AdminStats(s)
    \/ \E s \in Sessions : AdminUsers(s)
    \/ \E s \in Sessions, id \in UserIds, blocked \in BOOLEAN :
          AdminBlock(s, id, blocked)
    \/ \E s \in Sessions, id \in UserIds : AdminDelete(s, id)

SpecAuth == Init /\ [][AuthNext]_vars

-----------------------------------------------------------------------------
(* The feed *)

SomeContent == <<"S">>
Browser == [xhr |-> FALSE, accept |-> TextHtml]

\* the users of the other specifications: the default admin, and ali once
\* registered
SomeRegister == \E s \in Sessions : Register(s, Ali, Pass1, SomeName)

SomeLogin ==
    \E s \in Sessions :
        \/ Login(s, Ali, Pass1)
        \/ Login(s, AdminName, AdminPassword)

\* requests that all arrive within one second: every created_at is equal
\* and GET /api/posts may give the selected rows in any order
SameSecondNext ==
    \/ SomeRegister
    \/ SomeLogin
    \/ \E s \in Sessions, privacy \in {Public, Private} :
          CreatePost(s, Browser, SomeContent, privacy, TRUE, {})
    \/ \E s \in Sessions : GetPosts(s, Browser)

SpecSameSecond == Init /\ [][SameSecondNext]_vars

\* the same requests with the clock moving between them
FeedNext ==
    \/ SameSecondNext
    \/ Tick

SpecFeed == Init /\ [][FeedNext]_vars

-----------------------------------------------------------------------------
(* A feed of more than fifty posts *)

\* the posts table after the admin has published one post per second, one
\* fewer than the limit of the feed, the last of them a second ago
BusyPosts ==
    {[id |-> i, user_id |-> 1, content |-> SomeContent, media |-> {},
      privacy |-> Public, created_at |-> i - PostsLimit] :
        i \in 1..(PostsLimit - 1)}

InitBusy ==
    /\ rev \in Revisions
    /\ users = {AdminRow}
    /\ nextUserId = 2
    /\ sessions = [s \in Sessions |-> EmptySession]
    /\ posts = BusyPosts
    /\ nextPostId = PostsLimit
    /\ likes = {}
    /\ nextLikeId = 1
    /\ comments = {}
    /\ nextCommentId = 1
    /\ chats = {}
    /\ nextChatId = 1
    /\ messages = {}
    /\ nextMessageId = 1
    /\ now = 0
    /\ pending = {}
    /\ lastLiked = [pair \in (1..MaxPosts) \X (1..MaxUsers) |-> "none"]
    /\ resp = NoResponse

\* the admin logs in and out, publishes further posts and reads the feed
BusyNext ==
    \/ \E s \in Sessions : Login(s, AdminName, AdminPassword)
    \/ \E s \in Sessions :
          CreatePost(s, Browser, SomeContent, Public, TRUE, {})
    \/ \E s \in Sessions : GetPosts(s, Browser)
    \/ \E s \in Sessions : Logout(s)
    \/ Tick

SpecBusyFeed == InitBusy /\ [][BusyNext]_vars

-----------------------------------------------------------------------------
(* Registrations with fields left empty or out *)

RegisterNext ==
    \/ \E s \in Sessions :
       \E username \in {Ali, <<>>, Undefined} :
       \E password \in {Pass1, <<>>, Undefined} :
       \E name \in {SomeName, <<>>, Undefined} :
          Register(s, username, password, name)
    \/ \E s \in Sessions, username \in {Ali, <<>>} :
          Login(s, username, Pass1)

SpecRegister == Init /\ [][RegisterNext]_vars

-----------------------------------------------------------------------------
(* Password changes *)

\* password changes of the admin and of ali, who type p1, p2 or nothing as
\* the current password and p2 or nothing as the new one
PasswordNext ==
    \/ SomeRegister
    \/ \E s \in Sessions, password \in {Pass1, Pass2} :
          Login(s, Ali, password)
    \/ \E s \in Sessions : Login(s, AdminName, AdminPassword)
    \/ \E s \in Sessions :
       \E currentPassword \in {Pass1, Pass2, Undefined} :
       \E newPassword \in {Pass2, Undefined} :
          UpdatePasswordSelect(s, Browser, currentPassword, newPassword)
    \/ \E q \in pending : UpdatePasswordWrite(q)
    \/ \E s \in Sessions, id \in {1} : AdminDelete(s, id)

SpecPassword == Init /\ [][PasswordNext]_vars

-----------------------------------------------------------------------------
(* Posts with the content, the files or the privacy left out *)

CreatePostNext ==
    \/ SomeRegister
    \/ SomeLogin
    \/ \E s \in Sessions :
       \E content \in {SomeContent, <<>>, Undefined} :
       \E privacy \in {Private, Undefined} :
       \E multipart \in BOOLEAN :
       \E files \in {{}, {"image"}} :
          CreatePost(s, Browser, content, privacy, multipart, files)
    \/ \E s \in Sessions : GetPosts(s, Browser)

SpecCreatePost == Init /\ [][CreatePostNext]_vars

-----------------------------------------------------------------------------
(* Like toggles that do not overlap *)

PostIds == 1..MaxPosts

\* no like request of the same user for the same post is between its SELECT
\* and its write
NoOverlap(s, postId) ==
    HasUserId(sessions[s]) =>
        \A q \in pending : ~(/\ q.kind = "like"
                             /\ q.arg = postId
                             /\ q.userId = sessions[s].userId)

LikeNext ==
    \/ SomeRegister
    \/ SomeLogin
    \/ \E s \in Sessions, postId \in {1} :
          NoOverlap(s, postId) /\ LikeSelect(s, Browser, postId)
    \/ \E q \in pending : LikeWrite(q)

SpecLike == Init /\ [][LikeNext]_vars

\* like toggles in any interleaving: a second request of a pair may run its
\* SELECT while the first is between its SELECT and its write
LikeRaceNext ==
    \/ SomeLogin
    \/ \E s \in Sessions, postId \in {1} : LikeSelect(s, Browser, postId)
    \/ \E q \in pending : LikeWrite(q)

SpecLikeRace == Init /\ [][LikeRaceNext]_vars

-----------------------------------------------------------------------------
(* Chats and messages, the chat requests one at a time *)

ChatIds == 1..MaxChats

ChatNext ==
    \/ SomeRegister
    \/ SomeLogin
    \/ \E s \in Sessions, otherUserId \in {1, 2} :
          pending = {} /\ ChatLookup(s, Browser, otherUserId)
    \/ \E q \in pending : ChatInsert(q)
    \/ \E s \in Sessions, chatId \in {1} :
          SendMessage(s, Browser, chatId, SomeContent, FALSE)

SpecChat == Init /\ [][ChatNext]_vars

\* the messages of chat 1, which is the admin's chat with ali or ali's chat
\* with themselves, sent and read back with the clock moving
MessagesNext ==
    \/ SomeRegister
    \/ SomeLogin
    \/ \E s \in Sessions, otherUserId \in {2} :
          pending = {} /\ ChatLookup(s, Browser, otherUserId)
    \/ \E q \in pending : ChatInsert(q)
    \/ \E s \in Sessions, chatId \in {1} :
          SendMessage(s, Browser, chatId, SomeContent, FALSE)
    \/ \E s \in Sessions, chatId \in {1} : GetMessages(s, Browser, chatId)
    \/ Tick

SpecMessages == Init /\ [][MessagesNext]_vars

\* chat requests of the admin and ali naming each other, in any
\* interleaving: a second lookup may run while the first request is between
\* its lookup and its INSERT
ChatRaceNext ==
    \/ SomeRegister
    \/ SomeLogin
    \/ \E s \in Sessions, otherUserId \in {1, 2} :
          /\ HasUserId(sessions[s]) => otherUserId # sessions[s].userId
          /\ ChatLookup(s, Browser, otherUserId)
    \/ \E q \in pending : ChatInsert(q)

SpecChatRace == Init /\ [][ChatRaceNext]_vars

-----------------------------------------------------------------------------
(* Deleting a user who has rows in the other tables *)

\* the session is ali's
IsAli(s) == HasUserId(sessions[s]) /\ sessions[s].userId = 2

\* ali posts, likes post 1 once and comments it, opens a chat with the admin
\* and writes in it; the admin deletes ali or themselves
DeleteNext ==
    \/ SomeRegister
    \/ SomeLogin
    \/ \E s \in Sessions :
          IsAli(s) /\ CreatePost(s, Browser, SomeContent, Public, TRUE, {})
    \/ \E s \in Sessions, postId \in {1} :
          /\ IsAli(s)
          /\ likes = {} /\ pending = {}
          /\ LikeSelect(s, Browser, postId)
    \/ \E q \in pending : q.kind = "like" /\ LikeWrite(q)
    \/ \E s \in Sessions, postId \in {1} :
          IsAli(s) /\ AddComment(s, Browser, postId, SomeContent)
    \/ \E s \in Sessions, otherUserId \in {1} :
          IsAli(s) /\ pending = {} /\ ChatLookup(s, Browser, otherUserId)
    \/ \E q \in pending : q.kind = "chat" /\ ChatInsert(q)
    \/ \E s \in Sessions, chatId \in {1} :
          IsAli(s) /\ SendMessage(s, Browser, chatId, SomeContent, FALSE)
    \/ \E s \in Sessions, id \in {1, 2} : AdminDelete(s, id)

SpecDelete == Init /\ [][DeleteNext]_vars

-----------------------------------------------------------------------------
(* Sessions of blocked and deleted users *)

\* the admin posts, likes, comments, opens a chat and writes in it, once
\* each, and blocks or deletes ali or themselves at any point in between; ali and the
\* admin log in and the session logs out
RevokeNext ==
    \/ SomeRegister
    \/ SomeLogin
    \/ \E s \in Sessions : Logout(s)
    \/ \E s \in Sessions :
          /\ IsAdminSession(sessions[s])
          /\ posts = {}
          /\ CreatePost(s, Browser, SomeContent, Public, TRUE, {})
    \/ \E s \in Sessions, postId \in {1} :
          /\ IsAdminSession(sessions[s])
          /\ likes = {} /\ pending = {}
          /\ LikeSelect(s, Browser, postId)
    \/ \E q \in pending : q.kind = "like" /\ LikeWrite(q)
    \/ \E s \in Sessions, postId \in {1} :
          /\ IsAdminSession(sessions[s])
          /\ comments = {}
          /\ AddComment(s, Browser, postId, SomeContent)
    \/ \E s \in Sessions, otherUserId \in {2} :
          /\ IsAdminSession(sessions[s])
          /\ pending = {}
          /\ ChatLookup(s, Browser, otherUserId)
    \/ \E q \in pending : q.kind = "chat" /\ ChatInsert(q)
    \/ \E s \in Sessions, chatId \in {1} :
          /\ IsAdminSession(sessions[s])
          /\ messages = {}
          /\ SendMessage(s, Browser, chatId, SomeContent, FALSE)
    \/ \E s \in Sessions, id \in {1, 2} : AdminBlock(s, id, TRUE)
    \/ \E s \in Sessions, id \in {1, 2} : AdminDelete(s, id)

SpecRevoke == Init /\ [][RevokeNext]_vars

-----------------------------------------------------------------------------
(* Password resets *)

\* ali registers with the first password; anyone, logged in or not, resets
\* the password of a username; the admin blocks and unblocks ali; ali logs in
\* with either password
ResetNext ==
    \/ SomeRegister
    \/ \E s \in Sessions, password \in {Pass1, Pass2} : Login(s, Ali, password)
    \/ \E s \in Sessions : Login(s, AdminName, AdminPassword)
    \/ \E s \in Sessions : Logout(s)
    \/ \E s \in Sessions, blocked \in BOOLEAN : AdminBlock(s, 2, blocked)
    \/ \E s \in Sessions :
       \E username \in {Ali, AliUpper, Undefined} :
       \E newPassword \in {Pass1, Pass2, Undefined} :
          ResetPassword(s, username, newPassword)

SpecReset == Init /\ [][ResetNext]_vars

-----------------------------------------------------------------------------
(* Likes and comments on posts of others *)

\* the admin makes one post, a private one; ali likes and comments the post
\* ids 1 and 2, of which the second is never made, each at most once, and
\* whoever is logged in reads their comments
CommentNext ==
    \/ SomeRegister
    \/ SomeLogin
    \/ \E s \in Sessions :
          /\ IsAdminSession(sessions[s])
          /\ posts = {}
          /\ CreatePost(s, Browser, SomeContent, Private, TRUE, {})
    \/ \E s \in Sessions, postId \in {1, 2} :
          /\ IsAli(s)
          /\ pending = {}
          /\ \A l \in likes : l.post_id # postId
          /\ LikeSelect(s, Browser, postId)
    \/ \E q \in pending : q.kind = "like" /\ LikeWrite(q)
    \/ \E s \in Sessions, postId \in {1, 2} :
          /\ IsAli(s)
          /\ \A c \in comments : c.post_id # postId
          /\ AddComment(s, Browser, postId, SomeContent)
    \/ \E s \in Sessions, postId \in {1, 2} : GetComments(s, Browser, postId)

SpecComment == Init /\ [][CommentNext]_vars

-----------------------------------------------------------------------------
(* Profile updates *)

\* ali and bo register, under names in either case; whoever is logged in
\* takes a new username; the admin deletes ali
ProfileNext ==
    \/ \E s \in Sessions, username \in {Ali, AliUpper, Bo} :
          Register(s, username, Pass1, SomeName)
    \/ \E s \in Sessions :
          \/ Login(s, Ali, Pass1)
          \/ Login(s, Bo, Pass1)
          \/ Login(s, AdminName, AdminPassword)
    \/ \E s \in Sessions :
       \E username \in {Ali, AliUpper, Bo, Undefined} :
          UpdateProfile(s, Browser, username, SomeName)
    \/ \E s \in Sessions, id \in {2} : AdminDelete(s, id)

SpecProfile == Init /\ [][ProfileNext]_vars

-----------------------------------------------------------------------------
(* Like toggles after an insert race *)

\* the race for the first like row is over
RaceOver == nextLikeId > 1

\* ali's first like requests for post 1 all run their SELECT before any of
\* them writes, as many as can be in flight; every later request of the pair
\* starts when none is in flight
RepairNext ==
    \/ SomeRegister
    \/ SomeLogin
    \/ \E s \in Sessions : Logout(s)
    \/ \E s \in Sessions, postId \in {1} :
          /\ IsAli(s)
          /\ NoOverlap(s, postId) \/ ~RaceOver
          /\ LikeSelect(s, Browser, postId)
    \/ \E q \in pending :
          /\ RaceOver \/ FreeSlots = {}
          /\ LikeWrite(q)

SpecLikeRepair == Init /\ [][RepairNext]_vars

-----------------------------------------------------------------------------
(* The admin statistics, with queries that may fail *)

\* one GET /api/admin/stats at a time, its four callbacks in any order and
\* each with or without an error, while users register
StatsNext ==
    \/ SomeRegister
    \/ SomeLogin
    \/ \E s \in Sessions : pending = {} /\ AdminStatsStart(s)
    \/ \E q \in pending, key \in StatKeys, err \in BOOLEAN :
          StatsCallback(q, key, err)

SpecStats == Init /\ [][StatsNext]_vars

-----------------------------------------------------------------------------
(* The user listings *)

\* ali and bo register, anyone logs in, the admin blocks and unblocks them,
\* and whoever is logged in lists and searches the users
ListNext ==
    \/ \E s \in Sessions, username \in {Ali, Bo} :
          Register(s, username, Pass1, SomeName)
    \/ \E s \in Sessions :
          \/ Login(s, Ali, Pass1)
          \/ Login(s, Bo, Pass1)
          \/ Login(s, AdminName, AdminPassword)
    \/ \E s \in Sessions, id \in {2, 3}, blocked \in BOOLEAN :
          AdminBlock(s, id, blocked)
    \/ \E s \in Sessions : GetUsers(s, Browser)
    \/ \E s \in Sessions, searchTerm \in {<<"a">>, <<"B">>, <<>>, Undefined} :
          SearchUsers(s, Browser, searchTerm)

SpecList == Init /\ [][ListNext]_vars

-----------------------------------------------------------------------------
(* Properties of registration, login and the guards *)

RegisterSucceeded(r) ==
    /\ r.op = "register"
    /\ r.body \in {"/login.html", "Diiwaangelintadu waxay guulaysatay"}

LoginSucceeded(r) == r.op = "login" /\ r.status = 302 /\ r.body = "/"

LoginRedirect(r) == r.status = 302 /\ r.body = "/login.html"

\* C1: a POST /register with non-empty username, password and name that
\* created a user row, followed at once by a POST /login with the same
\* username and password, logs in: the session then holds the id of the row
\* the registration created, that row's (lower-cased) username and
\* isAdmin = (is_admin = 1) of that row.
C1_RegisterThenLogin ==
    [][(/\ RegisterSucceeded(resp)
        /\ ~Falsy(resp.req[1]) /\ ~Falsy(resp.req[2]) /\ ~Falsy(resp.req[3])
        /\ resp'.op = "login"
        /\ resp'.req = <<resp.req[1], resp.req[2]>>)
       => /\ LoginSucceeded(resp')
          /\ \E u \in users :
                /\ u.id = resp.out
                /\ u.username = ToLowerCase(resp.req[1])
                /\ sessions'[resp'.sess] =
                      [userId |-> u.id, username |-> u.username,
                       isAdmin |-> (u.is_admin = 1)]]_vars

\* a login that follows the registration it uses, with a username typed in
\* upper case, has succeeded
C1_Witness ==
    /\ LoginSucceeded(resp)
    /\ resp.req[1] = AliUpper
    /\ HasUserId(sessions[resp.sess])
    /\ sessions[resp.sess].userId = resp.out
    /\ sessions[resp.sess].username = Ali
    /\ sessions[resp.sess].isAdmin = FALSE

\* the username of the request r, case-folded, is the username of a row
UsernameExists(r) == \E u \in users : u.username = ToLowerCase(r.req[1])

\* C2 as stated: whenever a row with the case-folded username exists, a
\* POST /register ends with the duplicate-username outcome and leaves the
\* users table as it was.
C2_Original ==
    [][(resp'.op = "register" /\ UsernameExists(resp'))
       => (resp'.body = "Username hore u jiray" /\ users' = users)]_vars

\* C2, amended: when a row with the case-folded username exists, a POST
\* /register with a non-empty password and name ends with the
\* duplicate-username outcome; whatever the password and name are, the users
\* table holds the same rows after it as before it.
C2_DuplicateUsername ==
    [][(resp'.op = "register" /\ UsernameExists(resp'))
       => /\ users' = users
          /\ (~Falsy(resp'.req[2]) /\ ~Falsy(resp'.req[3]))
                => resp'.body = "Username hore u jiray"]_vars

\* a registration in another case than the stored username was refused as
\* a duplicate
C2_Witness ==
    /\ resp.op = "register"
    /\ resp.req[1] = AliUpper
    /\ resp.body = "Username hore u jiray"
    /\ \E u \in users : u.username = Ali

\* C5: while a user's is_blocked is 1, a POST /login with that user's
\* username fails, with the correct password too, and leaves the session as
\* it was.
C5_BlockedCannotLogin ==
    [][(/\ resp'.op = "login"
        /\ \E u \in users : /\ u.username = ToLowerCase(resp'.req[1])
                            /\ u.is_blocked = 1)
       => (~LoginSucceeded(resp') /\ sessions' = sessions)]_vars

\* a blocked user's login with the correct password was refused
C5_Witness ==
    /\ resp.op = "login"
    /\ resp.body = "Username ama password khalad"
    /\ ~HasUserId(sessions[resp.sess])
    /\ \E u \in users : /\ u.username = ToLowerCase(resp.req[1])
                        /\ u.is_blocked = 1
                        /\ BcryptCompare(resp.req[2], u.password)

\* C7 as stated: a request to a login-guarded endpoint on a session without
\* userId is answered 401 or with a redirect to /login.html, whatever its
\* headers, and the handler does not run: no row changes.
C7_Original ==
    [][(resp'.op \in LoginGuarded /\ ~HasUserId(sessions[resp'.sess]))
       => /\ resp'.status = 401 \/ LoginRedirect(resp')
          /\ ~resp'.ran
          /\ UNCHANGED dbVars]_vars

-----------------------------------------------------------------------------
(* Properties of the feed, the likes and the messages *)

\* C3: the result of GET /api/posts for a session holds no post whose
\* privacy is not 'public' and whose user_id is not the session's userId.
C3_PrivatePostsHidden ==
    (resp.op = "posts" /\ resp.ran)
    => \A i \in DOMAIN resp.out :
          resp.out[i].privacy = Public \/ resp.out[i].user_id = resp.req

\* a feed was returned to a user while another user's non-public post and a
\* public post were in the table
C3_Witness ==
    /\ resp.op = "posts"
    /\ resp.ran
    /\ Len(resp.out) > 0
    /\ \E p \in posts : /\ p.privacy # Public
                        /\ p.user_id # resp.req
                        /\ \E u \in users : u.id = p.user_id

\* the sender of the request answered by r is a participant of its chat
IsParticipant(r, userId) ==
    \E c \in chats : /\ c.id = r.req[1]
                     /\ c.user1_id = userId \/ c.user2_id = userId

\* C4: a POST /api/chats/:id/messages of a logged-in user who is no
\* participant of chat :id, or for a chat id that does not exist, is
\* answered 403 and leaves the messages table as it was; and the sender_id
\* of every message row is a participant of the row's chat.
C4_OnlyParticipantsSend ==
    /\ [](\A m \in messages :
            \E c \in chats : /\ c.id = m.chat_id
                             /\ m.sender_id \in {c.user1_id, c.user2_id})
    /\ [][(/\ resp'.op = "send-message"
           /\ HasUserId(sessions[resp'.sess])
           /\ ~IsParticipant(resp', sessions[resp'.sess].userId))
          => (resp'.status = 403 /\ messages' = messages)]_vars

\* a user who is no participant of an existing chat that holds a message
\* was refused
C4_Witness ==
    /\ resp.op = "send-message"
    /\ resp.status = 403
    /\ \E c \in chats : /\ c.id = resp.req[1]
                        /\ resp.req[2] \notin {c.user1_id, c.user2_id}
                        /\ \E m \in messages : m.chat_id = c.id

\* the like rows of a (post, user) pair in the table ls
LikeCount(ls, pair) ==
    Cardinality({l \in ls : l.post_id = pair[1] /\ l.user_id = pair[2]})

\* C6: when the like requests of a user for a post do not overlap and the
\* pair starts with no like row, each response is the opposite of the
\* previous one for the pair, the first being liked=true, and the pair has 1
\* like row after liked=true and 0 after liked=false.
C6_LikeToggles ==
    [][(\E q \in pending : q.kind = "like" /\ pending' = pending \ {q})
       => /\ resp'.op = "like"
          /\ resp'.out = (lastLiked[resp'.req] # "true")
          /\ LikeCount(likes', resp'.req) = IF resp'.out THEN 1 ELSE 0]_vars

\* the third toggle of the only pair that was ever liked answered
\* liked=true: its first like row is gone and its second is the only row
C6_Witness ==
    /\ resp.op = "like"
    /\ resp.ran
    /\ resp.out = TRUE
    /\ nextLikeId = 3
    /\ likes = {[id |-> 2, post_id |-> resp.req[1], user_id |-> resp.req[2]]}
    /\ \A pair \in DOMAIN lastLiked :
          pair # resp.req => lastLiked[pair] = "none"

\* the post created last
NewestPost == CHOOSE p \in posts : \A q \in posts : q.id <= p.id

\* C10 as stated: once a POST /create-post with privacy 'public' has
\* completed, a GET /api/posts of another logged-in user that comes before
\* any further post is created has that post as its first element.
C10_Original ==
    (/\ resp.op = "posts"
     /\ resp.ran
     /\ posts # {}
     /\ NewestPost.privacy = Public
     /\ NewestPost.user_id # resp.req
     /\ \E u \in users : u.id = NewestPost.user_id)
    => (Len(resp.out) > 0 /\ resp.out[1].id = NewestPost.id)

-----------------------------------------------------------------------------
(* Properties of the like table *)

LikePairs == (1..MaxPosts) \X (1..MaxUsers)

\* C11: when the like requests of a (post_id, user_id) pair do not overlap,
\* the likes table holds at most one row of each pair in every reachable
\* state.
C11_OneLikePerPair == \A pair \in LikePairs : LikeCount(likes, pair) <= 1

\* a pair was liked, unliked and liked again: the second row ever inserted
\* is its only row
C11_Witness ==
    /\ pending = {}
    /\ \E l \in likes :
          /\ l.id = 2
          /\ lastLiked[<<l.post_id, l.user_id>>] = "true"
          /\ LikeCount(likes, <<l.post_id, l.user_id>>) = 1
          /\ \A pair \in LikePairs :
                pair # <<l.post_id, l.user_id>> => lastLiked[pair] = "none"

\* C12: a like request whose SELECT found no row of its pair takes the
\* insert branch whatever was written since: it adds a row of the pair and
\* answers liked=true, also when another request of the pair has inserted
\* in between, so that two requests that both ran their SELECT before
\* either write leave two rows of one pair and both answer liked=true.
C12_DoubleInsert ==
    [][\A q \in pending :
          (q.kind = "like" /\ ~q.found /\ pending' = pending \ {q})
          => /\ resp'.op = "like"
             /\ resp'.req = <<q.arg, q.userId>>
             /\ resp'.out = TRUE
             /\ LikeCount(likes', resp'.req) = LikeCount(likes, resp'.req) + 1
      ]_vars

\* the only two like rows ever inserted are of one pair, both requests are
\* answered and the later answer is liked=true
C12_Witness ==
    /\ pending = {}
    /\ nextLikeId = 3
    /\ resp.op = "like"
    /\ resp.ran
    /\ resp.out = TRUE
    /\ LikeCount(likes, resp.req) = 2

-----------------------------------------------------------------------------
(* Properties of the chat table *)

\* two chat rows of the same unordered pair of users
SamePair(c, d) == {c.user1_id, c.user2_id} = {d.user1_id, d.user2_id}

\* C13: when the POST /api/chats requests do not overlap, the chats table
\* holds at most one row of each unordered pair of users in every reachable
\* state, no chat row is ever removed, and every request is answered with
\* the id of the row of its pair: a request of A naming B and a later one
\* of B naming A, or of A naming B again, get the same chat id.
C13_OneChatPerPair ==
    /\ [](\A c, d \in chats : SamePair(c, d) => c = d)
    /\ [][chats \subseteq chats']_vars
    /\ [][(resp'.op = "chats" /\ resp'.ran)
          => \E c \in chats' :
                /\ c.id = resp'.out
                /\ {c.user1_id, c.user2_id} = {resp'.req[1], resp'.req[2]}
      ]_vars

\* a user naming another one was answered with the chat that the other one
\* had created naming them
C13_Witness ==
    /\ resp.op = "chats"
    /\ resp.ran
    /\ resp.req[1] # resp.req[2]
    /\ \E c \in chats : /\ c.id = resp.out
                        /\ c.user1_id = resp.req[2]
                        /\ c.user2_id = resp.req[1]

\* C14: a POST /api/chats request whose lookup found no chat inserts a row
\* whatever was inserted since, and answers with the new row's id, which no
\* earlier row has: two requests of one unordered pair that both ran their
\* lookup before either INSERT leave two chat rows of the pair and are
\* answered with different chat ids.
C14_DoubleCreate ==
    [][\A q \in pending :
          (q.kind = "chat" /\ pending' = pending \ {q})
          => /\ resp'.op = "chats"
             /\ resp'.req = <<q.userId, q.arg>>
             /\ \A c \in chats : c.id # resp'.out
             /\ chats' = chats \cup {[id |-> resp'.out,
                                      user1_id |-> q.userId,
                                      user2_id |-> q.arg]}
             /\ Cardinality(chats') = Cardinality(chats) + 1
      ]_vars

\* the only two chat rows ever inserted are of one pair of two users, one
\* created by each of them, and both requests are answered
C14_Witness ==
    /\ pending = {}
    /\ nextChatId = 3
    /\ resp.op = "chats"
    /\ resp.out = 2
    /\ \E c, d \in chats : /\ c.id = 1
                           /\ d.id = 2
                           /\ SamePair(c, d)
                           /\ c.user1_id = d.user2_id
                           /\ c.user1_id # c.user2_id

-----------------------------------------------------------------------------
(* Properties of the message list *)

\* C15: GET /api/chats/:id/messages of a logged-in user who is user1_id or
\* user2_id of chat :id returns the message rows of that chat and no other
\* row, in an order in which created_at does not decrease; of every other
\* logged-in user it is answered 403 and returns no message.
C15_MessagesOfParticipants ==
    [][(/\ resp'.op = "messages"
        /\ resp'.ran
        /\ chats' = chats
        /\ messages' = messages
        /\ users' = users)
       => IF IsParticipant(resp', resp'.req[2])
          THEN /\ resp'.status = 200
               /\ {resp'.out[i] : i \in DOMAIN resp'.out} =
                     MessagesOf(resp'.req[1])
               /\ \A i, j \in DOMAIN resp'.out :
                     i < j => resp'.out[i].created_at
                                 <= resp'.out[j].created_at
          ELSE /\ resp'.status = 403
               /\ resp'.out = <<>>]_vars

\* a user who is no participant of a chat that holds a message was refused
\* its messages
C15_Witness ==
    /\ resp.op = "messages"
    /\ resp.status = 403
    /\ resp.out = <<>>
    /\ \E c \in chats : /\ c.id = resp.req[1]
                        /\ resp.req[2] \notin {c.user1_id, c.user2_id}
                        /\ \E msg \in messages : msg.chat_id = c.id

-----------------------------------------------------------------------------
(* Properties of the password change *)

WrongCurrentPassword == "Password-ka hadda waa khalad"

\* the password is the one the hash was made of
Matches(password, hash) == hash = [bcrypt |-> password]

\* the step answers a POST /update-password without reaching its UPDATE
PasswordRefused ==
    /\ resp'.op = "update-password"
    /\ resp'.ran
    /\ resp'.status # 302
    /\ pending' = pending

-----------------------------------------------------------------------------
(* Properties of input validation *)

FillAllFields == "Fadlan buuxi dhammaan fields-ka"

\* C17 as stated: a POST /register in which username, password or name is
\* missing or the empty string is rejected with the validation outcome (the
\* fill-all-fields message, with status 400 or inline) and creates no user
\* row.
C17_Original ==
    [][(/\ resp'.op = "register"
        /\ \/ Falsy(resp'.req[1])
           \/ Falsy(resp'.req[2])
           \/ Falsy(resp'.req[3]))
       => (resp'.body = FillAllFields /\ users' = users)]_vars

\* C18 as stated: a POST /create-post of a logged-in user with empty or
\* missing content and no image, video or audio file is rejected and
\* inserts no post row, and every post row has non-empty content or a media
\* path.
C18_Original ==
    /\ [](\A p \in posts : ~Falsy(p.content) \/ p.media # {})
    /\ [][(/\ resp'.op = "create-post"
           /\ resp'.ran
           /\ Falsy(resp'.req[1])
           /\ resp'.req[4] = {})
          => (resp'.status # 302 /\ posts' = posts)]_vars

\* C19 as stated: a post created by POST /create-post without a privacy
\* field is stored with privacy 'public', and a post stored without a
\* privacy of its own is in the result of GET /api/posts of every logged-in
\* user as long as its author's row exists.
C19_Original ==
    /\ [][(/\ resp'.op = "create-post"
           /\ resp'.ran
           /\ resp'.status = 302
           /\ resp'.req[2] = Undefined)
          => \E p \in posts' : p.id = resp'.out /\ p.privacy = Public]_vars
    /\ [][(/\ resp'.op = "posts"
           /\ resp'.ran
           /\ posts' = posts
           /\ users' = users)
          => \A p \in posts :
                (/\ p.privacy \in {Public, Undefined}
                 /\ \E u \in users : u.id = p.user_id)
                => \E i \in DOMAIN resp'.out : resp'.out[i] = p]_vars

-----------------------------------------------------------------------------
(* Properties of the deletion of a user *)

\* C20: DELETE /api/admin/users/:id on an admin session removes the user
\* row with that id and no other user row, and leaves the posts, comments,
\* likes, chats and messages tables as they were: the rows that name the
\* deleted user stay.
C20_DeleteDoesNotCascade ==
    [][(resp'.op = "admin-delete" /\ resp'.ran)
       => /\ users' = {u \in users : u.id # resp'.req[1]}
          /\ UNCHANGED <<posts, comments, likes, chats, messages>>]_vars

\* a user was deleted and a post, a comment, a like, a chat and a message
\* of that user are in the tables
C20_Witness ==
    /\ resp.op = "admin-delete"
    /\ resp.ran
    /\ \A u \in users : u.id # resp.req[1]
    /\ \E p \in posts : p.user_id = resp.req[1]
    /\ \E c \in comments : c.user_id = resp.req[1]
    /\ \E l \in likes : l.user_id = resp.req[1]
    /\ \E c \in chats : c.user1_id = resp.req[1]
    /\ \E msg \in messages : msg.sender_id = resp.req[1]


-----------------------------------------------------------------------------
(* Properties of the admin statistics *)

\* the keys of the results object of a stats response
ResultKeys(r) == {r.out.results[i][1] : i \in DOMAIN r.out.results}

\* C21: GET /api/admin/stats sends its JSON result only when all four count
\* queries have called back with a row, in whatever order the callbacks
\* came, and the result then has the four keys totalUsers, totalPosts,
\* totalComments and totalReports.
C21_StatsAfterAllFour ==
    (resp.op = "admin-stats" /\ resp.ran /\ resp.status = 200)
    => /\ resp.out.completed = 4
       /\ Len(resp.out.results) = 4
       /\ ResultKeys(resp) = StatKeys

\* the result was sent after the four callbacks came in the reverse of the
\* order in which the queries were issued, a user having registered between
\* two of them
C21_Witness ==
    /\ resp.op = "admin-stats"
    /\ resp.ran
    /\ resp.status = 200
    /\ resp.out.results[1][1] = "totalReports"
    /\ resp.out.results[4] = <<"totalUsers", 2>>

\* C24 as stated: a handler sends at most one response per request, GET
\* /api/admin/stats too when two or more of its count queries fail, and no
\* success response after an error response.
C24_Original ==
    (resp.op = "admin-stats" /\ resp.ran)
    => /\ Len(resp.out.sent) <= 1
       /\ \A i, j \in DOMAIN resp.out.sent :
             (i < j /\ resp.out.sent[i] = 500) => resp.out.sent[j] # 200


-----------------------------------------------------------------------------
(* Properties of the user listings *)

\* a response of one of the two listings
IsListing(r) == r.op \in {"users", "users-search"} /\ r.ran /\ r.status = 200

\* C22: the result of GET /api/users and of GET /api/users/search contains
\* neither the user of the requesting session nor a user whose is_blocked is
\* 1 when the query runs.
C22_ListingExcludesSelfAndBlocked ==
    [][(resp' # resp /\ IsListing(resp'))
       => \A id \in resp'.out :
             /\ id # sessions[resp'.sess].userId
             /\ \A u \in users : u.id = id => u.is_blocked = 0]_vars

\* a search with the empty term, which every row matches, by the admin while
\* ali is blocked: bo alone is returned
C22_Witness ==
    /\ IsListing(resp)
    /\ resp.op = "users-search"
    /\ resp.req = <<1, <<>>>>
    /\ resp.out = {2}
    /\ \E u \in users : u.id = 3 /\ u.is_blocked = 1 /\ u.username = Ali


-----------------------------------------------------------------------------
(* Properties of the length of the feed *)

\* a response of GET /api/posts with its rows
IsFeed(r) == r.op = "posts" /\ r.ran /\ r.status = 200

\* the rows are in descending created_at order
Descending(rows) ==
    \A i, j \in DOMAIN rows : i < j => rows[i].created_at >= rows[j].created_at

\* C23 as stated: GET /api/posts returns at most 50 posts, and when more
\* than 50 posts are visible to the requester the ones returned are the 50
\* with the latest created_at, in descending created_at order.
C23_Original ==
    [][(resp' # resp /\ IsFeed(resp'))
       => LET visible == {p \in posts : Visible(p, resp'.req)}
              returned == {resp'.out[i] : i \in DOMAIN resp'.out}
          IN  /\ Len(resp'.out) <= 50
              /\ Cardinality(visible) > 50
                 => /\ Len(resp'.out) = 50
                    /\ returned \subseteq visible
                    /\ Descending(resp'.out)
                    /\ \A p \in returned, q \in visible \ returned :
                          p.created_at >= q.created_at]_vars


-----------------------------------------------------------------------------
(* Properties of the sessions of blocked and deleted users *)

\* the user has no row any more, or a blocked one
Revoked(userId) == \A u \in users : u.id = userId => u.is_blocked = 1

\* the session holds a userId, whatever has become of the user
HoldsUserId(sess) == "userId" \in DOMAIN sess

\* the request was answered by the guard, not by the handler
GuardAnswered(r) == r.op \in LoginGuarded \cup AdminGuarded /\ ~r.ran

\* the response of a handler to the session of a blocked or deleted user
AnswersRevoked(r) ==
    /\ r.ran
    /\ HoldsUserId(sessions[r.sess])
    /\ Revoked(sessions[r.sess].userId)

\* C25: blocking or deleting a user changes no session; a session that holds
\* a userId passes requireLogin, and requireAdmin when it holds isAdmin,
\* whether the user is blocked, deleted or neither; for such a session
\* create-post, like, comment, chats and send-message still insert their row
\* and answer with success; a POST /login with the username of a blocked or
\* deleted user is refused and leaves the session as it was.
C25_SessionOutlivesUser ==
    /\ [][resp'.op \in {"admin-block", "admin-delete"}
          => sessions' = sessions]_vars
    /\ [][(resp' # resp /\ GuardAnswered(resp'))
          => IF resp'.op \in AdminGuarded
             THEN ~IsAdminSession(sessions[resp'.sess])
             ELSE ~HoldsUserId(sessions[resp'.sess])]_vars
    /\ [][(resp' # resp /\ AnswersRevoked(resp') /\ sessions' = sessions)
          => /\ resp'.op = "create-post"
                => resp'.status = 302 /\ Cardinality(posts') > Cardinality(posts)
             /\ resp'.op = "comment"
                => /\ resp'.status = 200
                   /\ Cardinality(comments') > Cardinality(comments)
             /\ resp'.op = "like"
                => resp'.status = 200 /\ likes' # likes
             /\ resp'.op = "chats" => resp'.status = 200
             /\ (resp'.op = "send-message" /\ resp'.status # 403)
                => /\ resp'.status = 200
                   /\ Cardinality(messages') > Cardinality(messages)]_vars
    /\ [][(/\ resp' # resp
           /\ resp'.op = "login"
           /\ resp'.req[1] # Undefined
           /\ \A u \in users : u.username = ToLowerCase(resp'.req[1])
                                  => u.is_blocked = 1)
          => resp'.status # 302 /\ sessions' = sessions]_vars

\* the admin deleted their own row, and after that the session, still an
\* admin session, posted, liked, commented, opened a chat and sent a message
C25_Witness ==
    /\ resp.op = "send-message"
    /\ resp.status = 200
    /\ IsAdminSession(sessions[resp.sess])
    /\ sessions[resp.sess].userId = 1
    /\ \A u \in users : u.id # 1
    /\ \E p \in posts : p.user_id = 1
    /\ \E l \in likes : l.user_id = 1
    /\ \E c \in comments : c.user_id = 1
    /\ \E c \in chats : c.user1_id = 1


-----------------------------------------------------------------------------
(* Properties of the password reset *)

\* a POST /login with this username and password is accepted when the
\* users table holds these rows
CanLoginWith(rows, username, password) ==
    \E u \in rows : /\ u.username = ToLowerCase(username)
                    /\ u.is_blocked = 0
                    /\ Matches(password, u.password)

CanLogin(username, password) == CanLoginWith(users, username, password)

\* a reset that the handler answered with its success message for the
\* username of an existing user
ResetDone(r) ==
    /\ r.op = "reset-password"
    /\ r.status = 200
    /\ \E u \in users : u.username = r.req[1]

SomePasswords == {Pass1, Pass2}

\* C26 as stated: POST /reset-password replaces the hash of the user whose
\* username equals the given one exactly, with no session, guard or check of
\* the current password; after it the new password logs in as that user and
\* the old password no longer does.
C26_Original ==
    [][(resp' # resp /\ ResetDone(resp'))
       => /\ users' = {IF u.username = resp'.req[1]
                       THEN [u EXCEPT !.password = [bcrypt |-> resp'.req[2]]]
                       ELSE u : u \in users}
          /\ CanLoginWith(users', resp'.req[1], resp'.req[2])
          /\ \A old \in SomePasswords :
                CanLogin(resp'.req[1], old)
                => ~CanLoginWith(users', resp'.req[1], old)
      ]_vars

\* C26, amended: the handler runs for every request, whatever the session;
\* without newPassword it answers 500 and changes nothing; otherwise it
\* replaces the hash of the user whose username equals the given one exactly
\* and of no other user; after it the new password logs in as that user
\* unless the user is blocked, and no other password does; and POST /login
\* accepts exactly the logins counted here as possible.
C26_ResetReplacesHash ==
    /\ [][(resp' # resp /\ resp'.op = "reset-password")
          => /\ resp'.ran
             /\ sessions' = sessions
             /\ IF resp'.req[2] = Undefined
                THEN resp'.status = 500 /\ users' = users
                ELSE /\ resp'.status = 200
                     /\ users' =
                           {IF u.username = resp'.req[1]
                            THEN [u EXCEPT
                                    !.password = [bcrypt |-> resp'.req[2]]]
                            ELSE u : u \in users}]_vars
    /\ [][(resp' # resp /\ ResetDone(resp'))
          => /\ CanLoginWith(users', resp'.req[1], resp'.req[2])
                <=> \E u \in users : /\ u.username = resp'.req[1]
                                     /\ u.is_blocked = 0
             /\ \A old \in SomePasswords \ {resp'.req[2]} :
                   ~CanLoginWith(users', resp'.req[1], old)]_vars
    /\ [][(resp' # resp /\ resp'.op = "login")
          => (resp'.status = 302
                <=> CanLogin(resp'.req[1], resp'.req[2]))]_vars

\* a session that never logged in reset ali's password to the second one,
\* and the login with it was accepted
C26_Witness ==
    /\ resp.op = "login"
    /\ resp.status = 302
    /\ resp.req = <<Ali, Pass2>>
    /\ \A u \in users : u.username = Ali => u.password # BcryptHash(Pass1)


-----------------------------------------------------------------------------
(* Properties of likes and comments on posts of others *)

\* the post of this id does not exist, or is not public and not the user's
NotVisiblePost(postId, userId) ==
    \A p \in posts : p.id = postId => (p.privacy # Public /\ p.user_id # userId)

\* C27: the like, comment and get-comments handlers check neither that the
\* post exists nor that the requester may see it: once past requireLogin, a
\* like toggles and a comment is inserted for whatever post id was given,
\* and the comments of the post id are returned, all of them whose author
\* exists, whoever asks.
C27_NoPostCheck ==
    [][(resp' # resp /\ resp'.ran)
       => /\ (resp'.op = "like" /\ resp'.out = TRUE)
             => /\ resp'.status = 200
                /\ \E l \in likes' \ likes :
                      <<l.post_id, l.user_id>> = resp'.req
          /\ resp'.op = "comment"
             => /\ resp'.status = 200
                /\ \E c \in comments' \ comments :
                      <<c.post_id, c.user_id>> = resp'.req
          /\ resp'.op = "comments"
             => /\ resp'.status = 200
                /\ {resp'.out[i] : i \in DOMAIN resp'.out} =
                      {c \in comments :
                          /\ c.post_id = resp'.req[1]
                          /\ \E u \in users : u.id = c.user_id}]_vars

\* ali has liked post 2, which does not exist, has liked and commented post
\* 1, the admin's private post, and is given the comments of post 1
C27_Witness ==
    /\ resp.op = "comments"
    /\ resp.ran
    /\ resp.status = 200
    /\ resp.req = <<1, 2>>
    /\ \E i \in DOMAIN resp.out : resp.out[i].user_id = 2
    /\ \E p \in posts : p.id = 1
    /\ NotVisiblePost(1, 2)
    /\ \A p \in posts : p.id # 2
    /\ \E l \in likes : l.post_id = 2 /\ l.user_id = 2
    /\ \E l \in likes : l.post_id = 1 /\ l.user_id = 2


-----------------------------------------------------------------------------
(* Properties of the usernames *)

\* session.username is the username of the row of session.userId
SessionNamesUser(sess) ==
    \A u \in users : u.id = sess.userId => sess.username = u.username

\* the step answers a profile update with the duplicate-username message
DuplicateRefused ==
    /\ resp'.op = "update-profile"
    /\ resp'.ran
    /\ resp'.body = "Username hore u jiray"

\* C28 as stated: every session that holds the userId of an existing user
\* holds that user's stored username, also after a profile update with a
\* username in upper case, and a profile update refused as a duplicate
\* leaves the user row and session.username as they were.
C28_Original ==
    /\ [](\A s \in Sessions :
             HasUserId(sessions[s]) => SessionNamesUser(sessions[s]))
    /\ [][DuplicateRefused => users' = users /\ sessions' = sessions]_vars

\* C29: whatever register, update-profile and admin delete requests have
\* run, no two user rows have the same username and every stored username
\* is its own lower-cased form.
C29_UsernamesUniqueLowerCase ==
    /\ \A u, v \in users : u.username = v.username => u = v
    /\ \A u \in users : u.username = [i \in DOMAIN u.username |->
                                         ToLowerChar(u.username[i])]

\* ali registered and was deleted by the admin, bo registered as the third
\* user and took the username ALI in a profile update, stored as ali
C29_Witness ==
    /\ resp.op = "update-profile"
    /\ resp.ran
    /\ resp.status = 302
    /\ resp.req[1] = AliUpper
    /\ \A u \in users : u.id # 2
    /\ \E u \in users : u.id = 3 /\ u.username = Ali

-----------------------------------------------------------------------------
(* Properties of the unlike branch *)

\* the pair of a like request
PairOf(q) == <<q.arg, q.userId>>

\* C30: the unlike branch deletes every like row of its pair: a like request
\* whose SELECT runs when the pair has one or more rows, two or more after
\* an insert race, finds a row, answers liked=false and leaves no row of the
\* pair; the toggle after a liked=false answer inserts one row and answers
\* liked=true, and so on in turn, the requests not overlapping.
C30_UnlikeDeletesAll ==
    /\ [][\A q \in pending' \ pending :
             q.kind = "like" => (q.found <=> LikeCount(likes, PairOf(q)) >= 1)
         ]_vars
    /\ [][\A q \in pending \ pending' :
             (q.kind = "like" /\ q.found)
             => /\ resp'.op = "like"
                /\ resp'.req = PairOf(q)
                /\ resp'.out = FALSE
                /\ LikeCount(likes', PairOf(q)) = 0]_vars
    /\ [][\A q \in pending \ pending' :
             (q.kind = "like" /\ lastLiked[PairOf(q)] = "false")
             => /\ resp'.out = TRUE
                /\ LikeCount(likes', PairOf(q)) = 1]_vars

\* the requests of the race have each inserted a row of ali's pair, and one
\* request after them was answered liked=false and has left no row
C30_Witness ==
    /\ resp.op = "like"
    /\ resp.ran
    /\ resp.req = <<1, 2>>
    /\ resp.out = FALSE
    /\ nextLikeId = MaxPending + 1
    /\ LikeCount(likes, <<1, 2>>) = 0
    /\ pending = {}

====
